---- MODULE Spec2Model ----
(***************************************************************************)
(* Model of VectorEngine (src/src/python/vector_engine.py): an id-mapped   *)
(* flat L2 index, a metadata dictionary and an id counter, with the        *)
(* operations add_embeddings, search, remove_embeddings, get_stats and     *)
(* save_index.                                                             *)
(*                                                                         *)
(* The embedding model and the faiss index are external collaborators.     *)
(* They are modelled at the calls the engine makes to them: encode may     *)
(* raise; add_with_ids checks that it is given as many ids as vectors;     *)
(* reconstruct may raise and raises for an id the index does not hold;     *)
(* search is the exhaustive scan of a flat index.                          *)
(***************************************************************************)
EXTENDS Integers, Sequences, FiniteSets, TLC

VARIABLES
    metadata,   \* self.metadata: dict id -> document, in insertion order
    id_map,     \* self.id_map: the (id, vector) entries of the index, in storage order
    next_id,    \* self.next_id
    disk,       \* the two artifacts faiss.index and metadata.pkl
    last,       \* the last call: its arguments, its result, the store before it
    issued,     \* history: every id an add has returned, in order
    request,    \* the request being answered: its requestId, action, missing fields
    response,   \* what process_request returned for it
    lines,      \* main: the lines of stdin read so far, each as its kind
    stdout,     \* main: the responses printed, each as the number of its line
    threads,    \* per thread: the call it is inside, its position and its locals
    proc,       \* the process: running, inside the signal handler, or ended
    retired     \* history: the ids adds returned in earlier processes

vars == <<metadata, id_map, next_id, disk, last, issued, request, response, lines, stdout,
          threads, proc, retired>>

\* what only the step-by-step specifications change
life == <<threads, proc, retired>>

-----------------------------------------------------------------------------
(* Bounds *)

MaxNextId == 2      \* adds are explored while next_id stays within this
MaxBatch  == 2      \* longest texts / metadata / vectorIds list of one call
MaxK      == 2      \* largest k of a search
MaxLines  == 3      \* lines of stdin the request loop is followed for
BulkSlack == 1      \* bulk adds are explored while next_id <= SaveInterval + BulkSlack

(* Program constants *)

SaveInterval == 100 \* add saves when len(metadata) % 100 == 0

(* Inputs *)

NoId     == "null"               \* request.get('requestId') of a request without one
NoAction == "None"               \* request.get('action') of a request without one
RequestIds     == {NoId, "r1"}
KnownActions   == {"add", "search", "remove", "stats"}
UnknownActions == {NoAction, "bogus"}

Texts   == {"A", "B"}            \* texts that are added
Queries == {"A", "C"}            \* query strings
DocOf(t) == IF t = "A" THEN "m1" ELSE "m2"    \* the document a caller sends with a text
VidArgs == 0 .. MaxNextId        \* ids a remove may name (MaxNextId is never assigned)
KArgs   == (0 - 1) .. MaxK

SeqsUpTo(S, n) == UNION {[1 .. m -> S] : m \in 0 .. n}

\* the (texts, metadata) arguments of an add: a batch of texts with their
\* documents, either list possibly cut short
AddArgs ==
    UNION {{[texts |-> [i \in 1 .. nt |-> b[i]], metas |-> [i \in 1 .. nm |-> DocOf(b[i])]] :
                nt \in 0 .. Len(b), nm \in 0 .. Len(b)} :
           b \in SeqsUpTo(Texts, MaxBatch)}

\* narrower arguments: adds of one text, matched, empty or short of its
\* text, and removes of at most one id
OneTextArgs ==
    {[texts |-> t, metas |-> m] : t \in {<<>>, <<"A">>}, m \in {<<>>, <<DocOf("A")>>}}

OneVidArgs == SeqsUpTo(VidArgs, 1)

-----------------------------------------------------------------------------
(* The embedder: model.encode(..., normalize_embeddings=True).  Every text *)
(* maps to a vector of the same norm (5, i.e. unit length scaled by 5), in *)
(* two dimensions.                                                         *)

Encode(t) ==
    CASE t = "A" -> <<5, 0>>
      [] t = "B" -> <<3, 4>>
      [] OTHER   -> <<0, 5>>

EncodeAll(texts) == [i \in 1 .. Len(texts) |-> Encode(texts[i])]

-----------------------------------------------------------------------------
(* The metadata dict, kept as a sequence of [id, meta] in insertion order. *)

Keys(d) == {d[i].id : i \in 1 .. Len(d)}

KeyList(d) == [i \in 1 .. Len(d) |-> d[i].id]

DictGet(d, key) == (CHOOSE i \in 1 .. Len(d) : d[i].id = key)

DictValue(d, key) == d[DictGet(d, key)].meta

DictSet(d, key, val) ==
    IF key \in Keys(d)
    THEN [d EXCEPT ![DictGet(d, key)] = [id |-> key, meta |-> val]]
    ELSE Append(d, [id |-> key, meta |-> val])

IsKept(e, gone) == e.id \notin gone

DictDelAll(d, gone) ==
    LET Keep(e) == IsKept(e, gone) IN SelectSeq(d, Keep)

-----------------------------------------------------------------------------
(* The index: faiss.IndexIDMap over IndexFlatL2.                           *)

IndexIds(ix) == {ix[i].id : i \in 1 .. Len(ix)}

NTotal(ix) == Len(ix)

EmptyIndex == <<>>

AddWithIds(ix, vectors, ids) ==
    ix \o [i \in 1 .. Len(ids) |-> [id |-> ids[i], vec |-> vectors[i]]]

\* the entry a reconstruct(id) reads: the last one stored under that id
ReconstructPos(ix, key) ==
    CHOOSE i \in 1 .. Len(ix) :
        /\ ix[i].id = key
        /\ \A j \in 1 .. Len(ix) : ix[j].id = key => j <= i

Reconstruct(ix, key) == ix[ReconstructPos(ix, key)].vec

RECURSIVE SumSq(_, _, _)
SumSq(x, y, i) ==
    IF i = 0 THEN 0
    ELSE (x[i] - y[i]) * (x[i] - y[i]) + SumSq(x, y, i - 1)

\* squared Euclidean distance
L2(x, y) == SumSq(x, y, Len(x))

Min(a, b) == IF a < b THEN a ELSE b

\* the flat scan: the positions of the k entries nearest to q, nearest
\* first, entries at equal distance in storage order
Nearer(ix, q, i, j) ==
    \/ L2(ix[i].vec, q) < L2(ix[j].vec, q)
    \/ L2(ix[i].vec, q) = L2(ix[j].vec, q) /\ i < j

Nearest(ix, q, S) ==
    CHOOSE i \in S : \A j \in S \ {i} : Nearer(ix, q, i, j)

RECURSIVE TopK(_, _, _, _)
TopK(ix, q, S, k) ==
    IF k = 0 \/ S = {} THEN <<>>
    ELSE <<Nearest(ix, q, S)>> \o TopK(ix, q, S \ {Nearest(ix, q, S)}, k - 1)

FaissSearch(ix, q, k) == TopK(ix, q, 1 .. Len(ix), k)

-----------------------------------------------------------------------------
(* save_index: write_index, then pickle.dump of metadata and next_id.      *)
(* Either write may raise; the exception is logged and swallowed.          *)

SaveOutcomes ==
    {"ok", "index_open_fails", "index_write_fails", "meta_open_fails", "meta_write_fails"}

Absent  == [st |-> "absent",  val |-> <<>>]
Corrupt == [st |-> "corrupt", val |-> <<>>]
Stored(v) == [st |-> "ok", val |-> v]

\* (variant: the exception of a failed write leaves save_index)
SaveRaises_Propagates(outcome) == outcome # "ok"

\* except Exception: logger.error(...) -- no write's exception leaves save_index
SaveRaises(outcome) == FALSE

save_index(dsk, md, ix, nid, outcome) ==
    CASE outcome = "index_open_fails"  -> dsk
      [] outcome = "index_write_fails" -> [dsk EXCEPT !.index = Corrupt]
      [] outcome = "meta_open_fails"   -> [dsk EXCEPT !.index = Stored(ix)]
      [] outcome = "meta_write_fails"  -> [index |-> Stored(ix), meta |-> Corrupt]
      [] OTHER -> [index |-> Stored(ix),
                   meta  |-> Stored([metadata |-> md, next_id |-> nid])]

-----------------------------------------------------------------------------
(* load_index, called by the constructor on its fresh fields.  Nothing is  *)
(* read unless both artifacts exist.  read_index is assigned to id_map     *)
(* before the metadata artifact is opened, and an exception only logs.     *)

FreshStore == [metadata |-> <<>>, id_map |-> EmptyIndex, next_id |-> 0]

\* where the try block stops: at read_index, at pickle.load, or nowhere
LoadFailure(dsk) ==
    IF dsk.index.st = "absent" \/ dsk.meta.st = "absent" THEN "none"
    ELSE IF dsk.index.st # "ok" THEN "read_index"
    ELSE IF dsk.meta.st # "ok" THEN "pickle"
    ELSE "none"

\* (variant: the counter of the artifact is not taken over)
load_index_KeepsCounter(dsk) ==
    IF dsk.index.st = "absent" \/ dsk.meta.st = "absent" THEN FreshStore
    ELSE IF LoadFailure(dsk) = "read_index" THEN FreshStore
    ELSE IF LoadFailure(dsk) = "pickle" THEN [FreshStore EXCEPT !.id_map = dsk.index.val]
    ELSE [metadata |-> dsk.meta.val.metadata, id_map |-> dsk.index.val, next_id |-> 0]

load_index(dsk) ==
    IF dsk.index.st = "absent" \/ dsk.meta.st = "absent" THEN FreshStore
    ELSE IF LoadFailure(dsk) = "read_index" THEN FreshStore
    ELSE IF LoadFailure(dsk) = "pickle" THEN [FreshStore EXCEPT !.id_map = dsk.index.val]
    ELSE [metadata |-> dsk.meta.val.metadata, id_map |-> dsk.index.val,
          next_id |-> dsk.meta.val.next_id]

-----------------------------------------------------------------------------
(* search                                                                  *)

\* (variant: 1 / distance)
Relevance_Unshifted(dist) == [num |-> 25, den |-> dist]

\* 1 / (1 + distance), with the distance in units of 1/25 (vectors are
\* scaled by 5), kept as a fraction
Relevance(dist) == [num |-> 25, den |-> 25 + dist]

Hit(md, ix, q, pos) ==
    [id       |-> ix[pos].id,        \* not part of the result; kept for the properties
     metadata |-> DictValue(md, ix[pos].id),
     distance |-> L2(ix[pos].vec, q),
     relevance |-> Relevance(L2(ix[pos].vec, q))]

RECURSIVE Results(_, _, _, _)
Results(md, ix, q, found) ==
    IF found = <<>> THEN <<>>
    ELSE IF ix[Head(found)].id \in Keys(md)
         THEN <<Hit(md, ix, q, Head(found))>> \o Results(md, ix, q, Tail(found))
         ELSE Results(md, ix, q, Tail(found))

search(md, ix, query, k, encodeFails) ==
    IF NTotal(ix) = 0 THEN <<>>
    ELSE IF encodeFails THEN <<>>
    ELSE IF Min(k, NTotal(ix)) <= 0 THEN <<>>     \* the index rejects k <= 0
    ELSE Results(md, ix, Encode(query), FaissSearch(ix, Encode(query), Min(k, NTotal(ix))))

-----------------------------------------------------------------------------
(* The record of the last call *)

Store == [metadata |-> metadata, id_map |-> id_map, next_id |-> next_id]

NoArgs == [texts |-> <<>>, metas |-> <<>>, vids |-> <<>>, query |-> "", k |-> 0]

NoResult == [ids |-> <<>>, hits |-> <<>>, total_vectors |-> 0, metadata_count |-> 0,
             error |-> ""]

\* no request: the engine's methods called directly
NoRequest == [id |-> NoId, action |-> NoAction, missing |-> {}]

NoResponse == [requestId |-> NoId, keys |-> {}, result |-> NoResult, nested_error |-> FALSE]

\* injected: a collaborator was made to raise during the call
\* write: how the save the call made went ("none": it made none)
Call(op, args, fault, injected, status, result, saved) ==
    [op |-> op, args |-> args, fault |-> fault, injected |-> injected, status |-> status,
     result |-> result, saved |-> saved, write |-> "none", pre |-> Store]

-----------------------------------------------------------------------------
(* add_embeddings                                                          *)

\* (variant: the counter is advanced before it is read)
AssignIds_OffByOne(nid, n) == [i \in 1 .. n |-> nid + i]

\* the ids the loop hands out: next_id, next_id + 1, ...
AssignIds(nid, n) == [i \in 1 .. n |-> nid + i - 1]

\* self.metadata[vector_id] = meta, for each meta in turn
RECURSIVE InsertAll(_, _, _)
InsertAll(md, ids, metas) ==
    IF metas = <<>> THEN md
    ELSE InsertAll(DictSet(md, Head(ids), Head(metas)), Tail(ids), Tail(metas))

\* add_with_ids takes as many ids as there are rows; encode of an empty
\* list gives an array without a second axis, which the index may refuse
AddAccepted(texts, ids, emptyBatchOk) ==
    /\ Len(texts) = Len(ids)
    /\ Len(texts) > 0 \/ emptyBatchOk

\* where the try block stops: at encode, at add_with_ids, or nowhere
AddFailure(texts, ids, encodeFails, emptyBatchOk) ==
    IF encodeFails THEN "encode"
    ELSE IF ~AddAccepted(texts, ids, emptyBatchOk) THEN "add_with_ids"
    ELSE "none"

\* (variant: the loop over metadata runs before encode)
MetadataAfterAdd_LoopFirst(md, ids, metas, failure) == InsertAll(md, ids, metas)

\* encode comes first: the loop over metadata runs unless encode raised
MetadataAfterAdd(md, ids, metas, failure) ==
    IF failure = "encode" THEN md ELSE InsertAll(md, ids, metas)

\* (variant: the counter is never written back)
NextIdAfterAdd_Stuck(nid, n, failure) == nid

\* self.next_id += 1, once per metadata item
NextIdAfterAdd(nid, n, failure) ==
    IF failure = "encode" THEN nid ELSE nid + n

\* add_with_ids adds every row or, when it raises, none
IndexAfterAdd(ix, vectors, ids, failure) ==
    IF failure = "none" THEN AddWithIds(ix, vectors, ids) ELSE ix

\* if len(self.metadata) % 100 == 0
SaveDue(md) == Len(md) % SaveInterval = 0

add_embeddings(texts, metas, encodeFails, emptyBatchOk, outcome) ==
    LET args == [NoArgs EXCEPT !.texts = texts, !.metas = metas]
        ids  == AssignIds(next_id, Len(metas))
        failure == AddFailure(texts, ids, encodeFails, emptyBatchOk)
        md2  == MetadataAfterAdd(metadata, ids, metas, failure)
        nid2 == NextIdAfterAdd(next_id, Len(metas), failure)
        ix2  == IndexAfterAdd(id_map, EncodeAll(texts), ids, failure)
        saves == failure = "none" /\ SaveDue(md2)
    IN
    /\ metadata' = md2
    /\ next_id' = nid2
    /\ id_map' = ix2
    /\ disk' = IF saves THEN save_index(disk, md2, ix2, nid2, outcome) ELSE disk
    /\ issued' = IF failure = "none" THEN issued \o ids ELSE issued
    /\ last' = [Call("add", args, failure, encodeFails,
                     IF failure = "none" /\ ~(saves /\ SaveRaises(outcome)) THEN "ok" ELSE "error",
                     IF failure = "none" /\ ~(saves /\ SaveRaises(outcome))
                     THEN [NoResult EXCEPT !.ids = ids] ELSE NoResult,
                     saves)
                 EXCEPT !.write = IF saves THEN outcome ELSE "none"]

\* the outcomes of the save a call would make, if it makes one
OutcomesIf(saves, outcomes) == IF saves THEN outcomes ELSE {"ok"}

\* an add with arguments from `argsets`
AddFrom(argsets, outcomes) ==
    \E a \in argsets, encodeFails \in BOOLEAN :
        \E emptyBatchOk \in IF a.texts = <<>> /\ ~encodeFails THEN BOOLEAN ELSE {FALSE},
           outcome \in OutcomesIf(~encodeFails /\ Len(a.texts) = Len(a.metas)
                                  /\ SaveDue(InsertAll(metadata, AssignIds(next_id, Len(a.metas)), a.metas)),
                                  outcomes) :
            /\ next_id + Len(a.metas) <= MaxNextId
            /\ add_embeddings(a.texts, a.metas, encodeFails, emptyBatchOk, outcome)

Add(outcomes) == AddFrom(AddArgs, outcomes)

\* list lengths of the bulk adds: around the save interval
BulkSizes == {0, SaveInterval \div 4 - 1, SaveInterval \div 4}

Repeat(x, n) == [i \in 1 .. n |-> x]

\* adds of many copies of one text, to fill the store up to the interval
AddBulk(outcomes) ==
    \E nt \in BulkSizes, nm \in BulkSizes, encodeFails \in BOOLEAN :
        \E emptyBatchOk \in IF nt = 0 /\ ~encodeFails THEN BOOLEAN ELSE {FALSE},
           outcome \in OutcomesIf(~encodeFails /\ nt = nm
                                  /\ (Len(metadata) + nm) % SaveInterval = 0, outcomes) :
            /\ next_id + nm <= SaveInterval + BulkSlack
            /\ add_embeddings(Repeat("A", nt), Repeat(DocOf("A"), nm),
                              encodeFails, emptyBatchOk, outcome)

-----------------------------------------------------------------------------
(* remove_embeddings                                                       *)

Range(s) == {s[i] : i \in 1 .. Len(s)}

\* for vid in vector_ids: if vid in self.metadata: del self.metadata[vid]
DeleteNamed(md, vids) == DictDelAll(md, Range(vids))

\* reconstruct raises when told to, and for an id the index does not hold
ReconstructFails(ix, remaining, reconstructFails) ==
    /\ remaining # <<>>
    /\ \/ reconstructFails
       \/ \E i \in 1 .. Len(remaining) : remaining[i] \notin IndexIds(ix)

\* (variant: the old index is kept as it is)
Rebuild_KeepsAll(ix, remaining) == ix

\* a fresh index holding the reconstructed vector of every remaining id
Rebuild(ix, remaining) ==
    AddWithIds(EmptyIndex,
               [i \in 1 .. Len(remaining) |-> Reconstruct(ix, remaining[i])],
               remaining)

\* where the try block stops: at a reconstruct, or nowhere.  The deletions
\* test membership first and never raise.
RemoveFailure(md, ix, vids, reconstructFails) ==
    IF ReconstructFails(ix, KeyList(DeleteNamed(md, vids)), reconstructFails)
    THEN "reconstruct" ELSE "none"

\* self.id_map is replaced only after every reconstruct has returned
IndexAfterRemove(ix, remaining, failure) ==
    IF failure = "none" THEN Rebuild(ix, remaining) ELSE ix

remove_embeddings(vids, reconstructFails, outcome) ==
    LET args == [NoArgs EXCEPT !.vids = vids]
        failure == RemoveFailure(metadata, id_map, vids, reconstructFails)
        md2  == DeleteNamed(metadata, vids)
        ix2  == IndexAfterRemove(id_map, KeyList(md2), failure)
    IN
    /\ metadata' = md2
    /\ id_map' = ix2
    /\ UNCHANGED <<next_id, issued>>
    /\ disk' = IF failure = "none" THEN save_index(disk, md2, ix2, next_id, outcome) ELSE disk
    /\ last' = [Call("remove", args, failure, reconstructFails,
                     IF failure = "none" /\ ~SaveRaises(outcome) THEN "ok" ELSE "error",
                     NoResult, failure = "none")
                 EXCEPT !.write = IF failure = "none" THEN outcome ELSE "none"]

\* a remove with a vectorIds list from `vidsets`
RemoveFrom(vidsets, outcomes) ==
    \E vids \in vidsets :
        \* no survivors, no reconstruct
        \E reconstructFails \in IF DeleteNamed(metadata, vids) = <<>> THEN {FALSE} ELSE BOOLEAN :
            \E outcome \in OutcomesIf(RemoveFailure(metadata, id_map, vids, reconstructFails) = "none",
                                      outcomes) :
                remove_embeddings(vids, reconstructFails, outcome)

Remove(outcomes) == RemoveFrom(SeqsUpTo(VidArgs, MaxBatch), outcomes)

-----------------------------------------------------------------------------
(* search and get_stats                                                    *)

\* what search ran into: the encoder raising, or the index refusing k <= 0;
\* either way the exception is caught and the result is empty
SearchFailure(ix, k, encodeFails) ==
    IF NTotal(ix) = 0 THEN "none"
    ELSE IF encodeFails THEN "encode"
    ELSE IF Min(k, NTotal(ix)) <= 0 THEN "k"
    ELSE "none"

Search ==
    \E query \in Queries, k \in KArgs,
       encodeFails \in IF NTotal(id_map) = 0 THEN {FALSE} ELSE BOOLEAN :   \* no vectors, no encode
        /\ UNCHANGED <<metadata, id_map, next_id, disk, issued>>
        /\ last' = Call("search", [NoArgs EXCEPT !.query = query, !.k = k],
                        SearchFailure(id_map, k, encodeFails),
                        SearchFailure(id_map, k, encodeFails) = "encode", "ok",
                        [NoResult EXCEPT !.hits = search(metadata, id_map, query, k, encodeFails)],
                        FALSE)

get_stats(md, ix) ==
    [NoResult EXCEPT !.total_vectors = NTotal(ix), !.metadata_count = Len(md)]

\* (variant: stats writes the artifacts)
Stats_Saves ==
    /\ UNCHANGED <<metadata, id_map, next_id, issued>>
    /\ disk' = save_index(disk, metadata, id_map, next_id, "ok")
    /\ last' = Call("stats", NoArgs, "none", FALSE, "ok", get_stats(metadata, id_map), FALSE)

Stats ==
    /\ UNCHANGED <<metadata, id_map, next_id, disk, issued>>
    /\ last' = Call("stats", NoArgs, "none", FALSE, "ok", get_stats(metadata, id_map), FALSE)

-----------------------------------------------------------------------------
(* process_request: the dispatch on `action`, inside one try               *)

\* (variant: the message does not name the action)
Unknown_NoName(name) ==
    /\ UNCHANGED <<metadata, id_map, next_id, disk, issued>>
    /\ last' = Call("unknown", NoArgs, "none", FALSE, "error",
                    [NoResult EXCEPT !.error = "Unknown action"], FALSE)

\* else: result = {"error": f"Unknown action: {action}"}
Unknown(name) ==
    /\ UNCHANGED <<metadata, id_map, next_id, disk, issued>>
    /\ last' = Call("unknown", NoArgs, "none", FALSE, "error",
                    [NoResult EXCEPT !.error = "Unknown action: " \o name], FALSE)

\* a handler that raises instead of returning.  The four handlers of the
\* engine catch what they raise; one replaced by a raising stand-in does
\* not, and it touches nothing.
Escapes(action) ==
    /\ UNCHANGED <<metadata, id_map, next_id, disk, issued>>
    /\ last' = Call(action, NoArgs, "escaped", TRUE, "error", NoResult, FALSE)

\* (variant: the except branch returns the handler's result as well)
Respond_BothKeys(req, call) ==
    IF call.fault = "escaped"
    THEN [requestId |-> req.id, keys |-> {"requestId", "result", "error"},
          result |-> NoResult, nested_error |-> FALSE]
    ELSE [requestId |-> req.id, keys |-> {"requestId", "result"},
          result |-> call.result, nested_error |-> call.status = "error"]

\* return {"requestId", "result"}, or from the except {"requestId", "error"}
Respond(req, call) ==
    IF call.fault = "escaped"
    THEN [requestId |-> req.id, keys |-> {"requestId", "error"},
          result |-> NoResult, nested_error |-> FALSE]
    ELSE [requestId |-> req.id, keys |-> {"requestId", "result"},
          result |-> call.result, nested_error |-> call.status = "error"]

\* request.get('texts', []), .get('metadata', []), .get('vectorIds', []):
\* the fields a request may lack and still lead to this call
Defaulted(call) ==
    CASE call.op = "add" ->
            (IF call.args.texts = <<>> THEN {"texts"} ELSE {})
                \cup (IF call.args.metas = <<>> THEN {"metadata"} ELSE {})
      [] call.op = "remove" -> IF call.args.vids = <<>> THEN {"vectorIds"} ELSE {}
      [] OTHER -> {}

\* (variant: the response does not carry the request's id)
Answer_ForgetsId(rid, action) ==
    /\ request' \in {[id |-> rid, action |-> action, missing |-> m] :
                         m \in SUBSET Defaulted(last')}
    /\ response' = Respond(NoRequest, last')

\* the request that led to the call, and the response to it
Answer(rid, action) ==
    /\ request' \in {[id |-> rid, action |-> action, missing |-> m] :
                         m \in SUBSET Defaulted(last')}
    /\ response' = Respond(request', last')

process_request(rid) ==
    \/ AddFrom(OneTextArgs, {"ok"}) /\ Answer(rid, "add")
    \/ Search /\ Answer(rid, "search")
    \/ RemoveFrom(OneVidArgs, {"ok"}) /\ Answer(rid, "remove")
    \/ Stats /\ Answer(rid, "stats")
    \/ \E name \in UnknownActions : Unknown(name) /\ Answer(rid, name)
    \/ \E action \in KnownActions : Escapes(action) /\ Answer(rid, action)

-----------------------------------------------------------------------------
(* The same methods step by step, as a thread runs them: between two steps *)
(* another thread, or the signal handler, may run.                         *)

Tids == {1, 2}

\* no call made one after another is on record
NoCall ==
    [op |-> "none", args |-> NoArgs, fault |-> "none", injected |-> FALSE, status |-> "ok",
     result |-> NoResult, saved |-> FALSE, write |-> "none",
     pre |-> [metadata |-> <<>>, id_map |-> EmptyIndex, next_id |-> 0]]

IdleFrame ==
    [op |-> "none", pc |-> "idle", args |-> NoArgs, ids |-> <<>>, n |-> 0,
     remaining |-> <<>>, vectors |-> <<>>, found |-> <<>>, hits |-> <<>>,
     status |-> "none", pre |-> FreshStore, overlap |-> FALSE, base |-> EmptyIndex,
     old |-> [index |-> Absent, meta |-> Absent]]

Running(t) == threads[t].pc \notin {"idle", "done"}

Other(t) == CHOOSE u \in Tids : u # t

\* nothing but the store, the artifacts and the threads moves in a step
Quiet == UNCHANGED <<last, request, response, lines, stdout, proc, retired>>

\* the threads are started in the order of their numbers
InTurn(t) == \A u \in Tids : u < t => threads[u].pc # "idle"

Goto(t, pc) == threads' = [threads EXCEPT ![t].pc = pc]

Finish(t, status) == threads' = [threads EXCEPT ![t].pc = "done", ![t].status = status]

\* thread t enters a method; a call already under way in the other thread
\* overlaps with it
Begin(t, op, pc, args) ==
    /\ proc = "running"
    /\ threads[t].pc = "idle"
    /\ InTurn(t)
    /\ last' = NoCall
    /\ UNCHANGED <<request, response, lines, stdout, proc, retired>>
    /\ threads' = [u \in Tids |->
                      IF u = t
                      THEN [IdleFrame EXCEPT !.op = op, !.pc = pc, !.args = args,
                                             !.pre = Store, !.overlap = Running(Other(t)),
                                             !.old = disk]
                      ELSE [threads[u] EXCEPT !.overlap = @ \/ Running(u)]]
    /\ UNCHANGED <<metadata, id_map, next_id, disk, issued>>

(* add_embeddings, lines 75-91 *)

\* embeddings = self.model.encode(texts, ...)
AddEncode(t) ==
    /\ threads[t].pc = "add_encode"
    /\ Goto(t, IF threads[t].args.metas = <<>> THEN "add_index" ELSE "add_read")
    /\ UNCHANGED <<metadata, id_map, next_id, disk, issued>>
    /\ Quiet

\* vector_id = self.next_id; ids.append(vector_id)
AddRead(t) ==
    /\ threads[t].pc = "add_read"
    /\ threads' = [threads EXCEPT ![t].pc = "add_load", ![t].ids = Append(@, next_id)]
    /\ UNCHANGED <<metadata, id_map, next_id, disk, issued>>
    /\ Quiet

\* self.next_id += 1: the value is read ...
AddLoad(t) ==
    /\ threads[t].pc = "add_load"
    /\ threads' = [threads EXCEPT ![t].pc = "add_store", ![t].n = next_id]
    /\ UNCHANGED <<metadata, id_map, next_id, disk, issued>>
    /\ Quiet

\* ... and one more is written back
AddStore(t) ==
    /\ threads[t].pc = "add_store"
    /\ next_id' = threads[t].n + 1
    /\ Goto(t, "add_meta")
    /\ UNCHANGED <<metadata, id_map, disk, issued>>
    /\ Quiet

\* self.metadata[vector_id] = meta, and on to the next item
AddMeta(t) ==
    LET f == threads[t] IN
    /\ f.pc = "add_meta"
    /\ metadata' = DictSet(metadata, f.ids[Len(f.ids)], f.args.metas[Len(f.ids)])
    /\ Goto(t, IF Len(f.ids) < Len(f.args.metas) THEN "add_read" ELSE "add_index")
    /\ UNCHANGED <<id_map, next_id, disk, issued>>
    /\ Quiet

\* the indexes a thread entering add_with_ids may append to: the index as
\* it is, or, while another thread is inside add_with_ids (the call runs
\* without the interpreter lock), the index that thread started from
AddBases(t) ==
    {id_map} \cup {threads[u].base : u \in {v \in Tids \ {t} : threads[v].pc = "add_inside"}}

\* self.id_map.add_with_ids(embeddings, ids): the call is entered and the
\* rows are in the index, or the call raises
AddIndex(t) ==
    LET f == threads[t] IN
    /\ f.pc = "add_index"
    /\ \E emptyBatchOk \in IF f.args.texts = <<>> THEN BOOLEAN ELSE {FALSE} :
        IF AddAccepted(f.args.texts, f.ids, emptyBatchOk)
        THEN /\ \E ix \in AddBases(t) :
                    id_map' = AddWithIds(ix, EncodeAll(f.args.texts), f.ids)
             /\ threads' = [threads EXCEPT ![t].pc = "add_inside", ![t].base = id_map]
        ELSE /\ id_map' = id_map
             /\ Finish(t, "error")
    /\ UNCHANGED <<metadata, next_id, disk, issued>>
    /\ Quiet

\* add_with_ids returns; if len(self.metadata) % 100 == 0: self.save_index()
AddReturn(t) ==
    /\ threads[t].pc = "add_inside"
    /\ Goto(t, IF SaveDue(metadata) THEN "save_index" ELSE "return")
    /\ UNCHANGED <<metadata, id_map, next_id, disk, issued>>
    /\ Quiet

\* return {"vectorIds": ids} / return {"success": True}
Return(t) ==
    /\ threads[t].pc = "return"
    /\ Finish(t, "ok")
    /\ issued' = issued \o threads[t].ids
    /\ UNCHANGED <<metadata, id_map, next_id, disk>>
    /\ Quiet

(* save_index, lines 62-68, as add and remove call it *)

\* faiss.write_index(self.id_map, index_file)
SaveIndexFile(t) ==
    /\ threads[t].pc = "save_index"
    /\ disk' = [disk EXCEPT !.index = Stored(id_map)]
    /\ Goto(t, "save_meta")
    /\ UNCHANGED <<metadata, id_map, next_id, issued>>
    /\ Quiet

\* pickle.dump({'metadata': ..., 'next_id': ...}, f)
SaveMetaFile(t) ==
    /\ threads[t].pc = "save_meta"
    /\ disk' = [disk EXCEPT !.meta = Stored([metadata |-> metadata, next_id |-> next_id])]
    /\ Goto(t, "return")
    /\ UNCHANGED <<metadata, id_map, next_id, issued>>
    /\ Quiet

(* remove_embeddings, lines 123-144 *)

\* for vid in vector_ids: if vid in self.metadata: del self.metadata[vid]
RemoveDelete(t) ==
    /\ threads[t].pc = "rm_del"
    /\ metadata' = DeleteNamed(metadata, threads[t].args.vids)
    /\ Goto(t, "rm_keys")
    /\ UNCHANGED <<id_map, next_id, disk, issued>>
    /\ Quiet

\* remaining_ids = list(self.metadata.keys())
RemoveKeys(t) ==
    /\ threads[t].pc = "rm_keys"
    /\ threads' = [threads EXCEPT ![t].remaining = KeyList(metadata),
                                   ![t].pc = IF metadata = <<>> THEN "rm_swap" ELSE "rm_build"]
    /\ UNCHANGED <<metadata, id_map, next_id, disk, issued>>
    /\ Quiet

\* vectors.append(self.id_map.reconstruct(int(vid))), for every remaining id
RemoveBuild(t) ==
    LET f == threads[t] IN
    /\ f.pc = "rm_build"
    /\ IF ReconstructFails(id_map, f.remaining, FALSE)
       THEN Finish(t, "error")
       ELSE threads' = [threads EXCEPT
                ![t].vectors = [i \in 1 .. Len(f.remaining) |-> Reconstruct(id_map, f.remaining[i])],
                ![t].pc = "rm_swap"]
    /\ UNCHANGED <<metadata, id_map, next_id, disk, issued>>
    /\ Quiet

\* self.index = faiss.IndexFlatL2(...); self.id_map = faiss.IndexIDMap(self.index)
RemoveSwap(t) ==
    /\ threads[t].pc = "rm_swap"
    /\ id_map' = EmptyIndex
    /\ Goto(t, IF threads[t].remaining = <<>> THEN "save_index" ELSE "rm_fill")
    /\ UNCHANGED <<metadata, next_id, disk, issued>>
    /\ Quiet

\* self.id_map.add_with_ids(vectors, ids)
RemoveFill(t) ==
    /\ threads[t].pc = "rm_fill"
    /\ id_map' = AddWithIds(id_map, threads[t].vectors, threads[t].remaining)
    /\ Goto(t, "save_index")
    /\ UNCHANGED <<metadata, next_id, disk, issued>>
    /\ Quiet

(* search, lines 98-116 *)

\* if self.id_map.ntotal == 0: return []; then the query is encoded
SearchCount(t) ==
    /\ threads[t].pc = "s_count"
    /\ IF NTotal(id_map) = 0 THEN Finish(t, "ok") ELSE Goto(t, "s_k")
    /\ UNCHANGED <<metadata, id_map, next_id, disk, issued>>
    /\ Quiet

\* k = min(k, self.id_map.ntotal)
SearchK(t) ==
    /\ threads[t].pc = "s_k"
    /\ threads' = [threads EXCEPT ![t].n = Min(threads[t].args.k, NTotal(id_map)),
                                   ![t].pc = "s_search"]
    /\ UNCHANGED <<metadata, id_map, next_id, disk, issued>>
    /\ Quiet

\* the ids whose rows another thread's add_with_ids is writing right now
Racing(t) ==
    UNION {Range(threads[u].ids) : u \in {v \in Tids \ {t} : threads[v].pc = "add_inside"}}

\* the label of a row as the search reads it: a row being written by another
\* thread may be read before its id is in place
LabelRead(id, racy, torn) == IF torn /\ id \in racy THEN 0 - 1 ELSE id

\* distances, indices = self.id_map.search(query_vector, k); the index
\* rejects k <= 0, and pads with -1 when it holds fewer than k rows
SearchIndex(t) ==
    LET f  == threads[t]
        q  == Encode(f.args.query)
        at == FaissSearch(id_map, q, f.n)
    IN
    /\ f.pc = "s_search"
    /\ IF f.n <= 0
       THEN Finish(t, "ok")
       ELSE \E torn \in IF Racing(t) = {} THEN {FALSE} ELSE BOOLEAN :
               threads' = [threads EXCEPT
                   ![t].found = [i \in 1 .. Len(at) |->
                                    [id |-> LabelRead(id_map[at[i]].id, Racing(t), torn),
                                     distance |-> L2(id_map[at[i]].vec, q)]],
                   ![t].pc = "s_collect"]
    /\ UNCHANGED <<metadata, id_map, next_id, disk, issued>>
    /\ Quiet

\* for idx, dist in zip(...): if idx != -1 and idx in self.metadata: append
SearchCollect(t) ==
    LET f == threads[t]
        h == Head(f.found)
    IN
    /\ f.pc = "s_collect"
    /\ IF f.found = <<>>
       THEN Finish(t, "ok")
       ELSE threads' = [threads EXCEPT
                ![t].found = Tail(@),
                ![t].hits = IF h.id # 0 - 1 /\ h.id \in Keys(metadata)
                            THEN Append(@, [id |-> h.id, metadata |-> DictValue(metadata, h.id),
                                            distance |-> h.distance,
                                            relevance |-> Relevance(h.distance)])
                            ELSE @]
    /\ UNCHANGED <<metadata, id_map, next_id, disk, issued>>
    /\ Quiet

\* one step of a thread inside a method that writes: the thread runs
\* while the process does, and not while the signal handler does
StepWrite(t) ==
    /\ proc = "running"
    /\ \/ AddEncode(t) \/ AddRead(t) \/ AddLoad(t) \/ AddStore(t) \/ AddMeta(t)
       \/ AddIndex(t) \/ AddReturn(t)
       \/ RemoveDelete(t) \/ RemoveKeys(t) \/ RemoveBuild(t) \/ RemoveSwap(t) \/ RemoveFill(t)
       \/ SaveIndexFile(t) \/ SaveMetaFile(t) \/ Return(t)

\* one step of a thread inside search
StepSearch(t) ==
    /\ proc = "running"
    /\ SearchCount(t) \/ SearchK(t) \/ SearchIndex(t) \/ SearchCollect(t)

\* the ids a call under way in thread u will still take
Reserved(u) ==
    IF Running(u) /\ threads[u].op = "add"
    THEN Len(threads[u].args.metas) - Len(threads[u].ids) ELSE 0

\* thread t calls add_embeddings
ThreadAdd(t) ==
    \E a \in OneTextArgs :
        /\ next_id + Len(a.metas) + Reserved(Other(t)) <= MaxNextId
        /\ Begin(t, "add", "add_encode", [NoArgs EXCEPT !.texts = a.texts, !.metas = a.metas])

\* thread t calls remove_embeddings
ThreadRemove(t) ==
    \E vids \in OneVidArgs : Begin(t, "remove", "rm_del", [NoArgs EXCEPT !.vids = vids])

\* thread t calls search
ThreadSearch(t) ==
    \E query \in Queries, k \in 1 .. MaxK :
        Begin(t, "search", "s_count", [NoArgs EXCEPT !.query = query, !.k = k])

-----------------------------------------------------------------------------
(* main: for line in sys.stdin, parse, process_request, print, flush.      *)
(* A line is garbage (json.loads raises), a JSON value that is not an      *)
(* object (process_request raises at request.get, outside its try), or a   *)
(* request object.  Both exceptions are logged by main and nothing is      *)
(* printed.  stdout holds the responses only, not the ready line.          *)

LineKinds == {"garbage", "nonobject", "object"}

\* the last line read is a request object still to be answered
Pending ==
    /\ lines # <<>>
    /\ lines[Len(lines)] = "object"
    /\ Len(lines) \notin Range(stdout)

\* (variant: the next line is read while a request is unanswered)
ReadLine_Ahead(kind) ==
    /\ Len(lines) < MaxLines
    /\ lines' = Append(lines, kind)
    /\ UNCHANGED <<metadata, id_map, next_id, disk, last, issued, request, response, stdout, life>>

\* the loop takes the next line once the body has finished with the last
ReadLine(kind) ==
    /\ ~Pending
    /\ Len(lines) < MaxLines
    /\ lines' = Append(lines, kind)
    /\ UNCHANGED <<metadata, id_map, next_id, disk, last, issued, request, response, stdout, life>>

\* response = engine.process_request(request); print(json.dumps(response))
AnswerLine ==
    /\ Pending
    /\ \E rid \in RequestIds : process_request(rid)
    /\ stdout' = Append(stdout, Len(lines))
    /\ UNCHANGED <<lines, life>>

-----------------------------------------------------------------------------
(* A new process over the same cache directory: the constructor.  The old  *)
(* process may have ended at any point; `issued` starts again, being the   *)
(* history of one process.                                                 *)

Start ==
    /\ metadata' = load_index(disk).metadata
    /\ id_map' = load_index(disk).id_map
    /\ next_id' = load_index(disk).next_id
    /\ issued' = <<>>
    /\ UNCHANGED disk
    /\ last' = Call("start", NoArgs, LoadFailure(disk), FALSE, "ok", NoResult, FALSE)

-----------------------------------------------------------------------------
(* The life of a process: signals, exits, and the next process over the    *)
(* same cache directory.                                                   *)

\* the request loop takes the next request after a call has returned
Rest(t) ==
    /\ proc = "running"
    /\ threads[t].pc = "done"
    /\ threads' = [threads EXCEPT ![t] = IdleFrame]
    /\ UNCHANGED <<metadata, id_map, next_id, disk, issued, last, request, response,
                   lines, stdout, proc, retired>>

\* SIGTERM or SIGINT arrives: the interpreter enters shutdown between two
\* steps of the main thread, which does not go on while the handler runs
Signal ==
    /\ proc = "running"
    /\ proc' = "shutdown"
    /\ last' = Call("shutdown", NoArgs, "none", FALSE, "ok", NoResult, TRUE)
    /\ UNCHANGED <<metadata, id_map, next_id, disk, issued, request, response,
                   lines, stdout, threads, retired>>

\* shutdown: self.save_index() -- faiss.write_index
HandlerSaveIndex ==
    /\ proc = "shutdown"
    /\ \E outcome \in {"ok", "index_open_fails", "index_write_fails"} :
        /\ disk' = IF outcome = "ok" THEN [disk EXCEPT !.index = Stored(id_map)]
                   ELSE save_index(disk, metadata, id_map, next_id, outcome)
        /\ proc' = IF outcome = "ok" THEN "shutdown_meta" ELSE "shutdown_exit"
        /\ last' = [last EXCEPT !.write = outcome]
    /\ UNCHANGED <<metadata, id_map, next_id, issued, request, response,
                   lines, stdout, threads, retired>>

\* shutdown: self.save_index() -- open(metadata_file, 'wb'), pickle.dump
HandlerSaveMeta ==
    /\ proc = "shutdown_meta"
    /\ \E outcome \in {"ok", "meta_open_fails", "meta_write_fails"} :
        /\ disk' = save_index(disk, metadata, id_map, next_id, outcome)
        /\ last' = [last EXCEPT !.write = outcome]
    /\ proc' = "shutdown_exit"
    /\ UNCHANGED <<metadata, id_map, next_id, issued, request, response,
                   lines, stdout, threads, retired>>

\* shutdown: sys.exit(0) -- SystemExit passes every except Exception of the
\* interrupted call, which is not resumed
HandlerExit ==
    /\ proc = "shutdown_exit"
    /\ proc' = "exited"
    /\ UNCHANGED <<metadata, id_map, next_id, disk, issued, last, request, response,
                   lines, stdout, threads, retired>>

\* the file being written when the process is killed, if any
Writing ==
    IF proc = "shutdown" \/ (proc = "running" /\ \E t \in Tids : threads[t].pc = "save_index")
    THEN "index"
    ELSE IF proc = "shutdown_meta"
            \/ (proc = "running" /\ \E t \in Tids : threads[t].pc = "save_meta")
    THEN "meta"
    ELSE "none"

\* the process is killed, or the machine stops: nothing more is written,
\* and a file that was being written may be left cut short
Crash ==
    /\ proc \in {"running", "shutdown", "shutdown_meta", "shutdown_exit"}
    /\ proc' = "crashed"
    /\ \E cut \in IF Writing = "none" THEN {FALSE} ELSE BOOLEAN :
           disk' = IF ~cut THEN disk
                   ELSE IF Writing = "index" THEN [disk EXCEPT !.index = Corrupt]
                   ELSE [disk EXCEPT !.meta = Corrupt]
    /\ UNCHANGED <<metadata, id_map, next_id, issued, last, request, response,
                   lines, stdout, threads, retired>>

\* main: the loop over sys.stdin ends, and the process with it
Eof ==
    /\ proc = "running"
    /\ \A t \in Tids : ~Running(t)
    /\ proc' = "eof"
    /\ UNCHANGED <<metadata, id_map, next_id, disk, issued, last, request, response,
                   lines, stdout, threads, retired>>

\* the next process over the cache directory; the ids the old one returned
\* are kept for the record
Restart ==
    /\ proc \in {"exited", "crashed", "eof"}
    /\ Start
    /\ proc' = "running"
    /\ threads' = [t \in Tids |-> IdleFrame]
    /\ retired' = retired \cup Range(issued)
    /\ UNCHANGED <<request, response, lines, stdout>>

-----------------------------------------------------------------------------
(* A fresh engine over an empty cache directory *)

Init ==
    /\ metadata = <<>>
    /\ id_map = EmptyIndex
    /\ next_id = 0
    /\ disk = [index |-> Absent, meta |-> Absent]
    /\ last = NoCall
    /\ issued = <<>>
    /\ request = NoRequest
    /\ response = NoResponse
    /\ lines = <<>>
    /\ stdout = <<>>
    /\ threads = [t \in Tids |-> IdleFrame]
    /\ proc = "running"
    /\ retired = {}

\* a method of the engine called directly, outside the request loop
Direct == request' = NoRequest /\ response' = NoResponse /\ UNCHANGED <<lines, stdout, life>>

(* Spec explores the store in memory, which no call reads back from the   *)
(* artifacts: every save in it succeeds.                                   *)

Next ==
    \/ Add({"ok"}) /\ Direct
    \/ Remove({"ok"}) /\ Direct
    \/ Search /\ Direct
    \/ Stats /\ Direct

Spec == Init /\ [][Next]_vars

(* SpecDisk follows the artifacts: saves may fail at either file, and the *)
(* process may be started again at any point.  Its calls take the narrower *)
(* arguments.                                                              *)

NextDisk ==
    \/ /\ NTotal(id_map) < MaxNextId     \* a restart can reset next_id under a kept index
       /\ AddFrom(OneTextArgs, SaveOutcomes) /\ Direct
    \/ RemoveFrom(OneVidArgs, SaveOutcomes) /\ Direct
    \/ Start /\ Direct

SpecDisk == Init /\ [][NextDisk]_vars

(* SpecThreads has two threads call into one engine, one call each, over   *)
(* a store that calls made one after another have filled.                  *)

SetupArgs == {[texts |-> <<t>>, metas |-> <<DocOf(t)>>] : t \in Texts}

AllIdle == \A t \in Tids : threads[t].pc = "idle"

NextThreads ==
    \/ AllIdle /\ AddFrom(SetupArgs, {"ok"}) /\ Direct
    \/ AllIdle /\ RemoveFrom(OneVidArgs, {"ok"}) /\ Direct
    \/ \E t \in Tids : ThreadAdd(t)
    \/ \E t \in Tids : ThreadRemove(t)
    \/ \E t \in Tids : ThreadSearch(t)
    \/ \E t \in Tids : StepWrite(t)
    \/ \E t \in Tids : StepSearch(t)

SpecThreads == Init /\ [][NextThreads]_vars

(* SpecLife follows one process after another over one cache directory:   *)
(* the main thread makes its calls step by step, a signal, a kill or the   *)
(* end of the input may come between any two steps.                        *)

NextLife ==
    \/ NTotal(id_map) < MaxNextId /\ ThreadAdd(1)
    \/ ThreadRemove(1)
    \/ StepWrite(1)
    \/ Rest(1)
    \/ Signal
    \/ HandlerSaveIndex
    \/ HandlerSaveMeta
    \/ HandlerExit
    \/ Crash
    \/ Eof
    \/ Restart

SpecLife == Init /\ [][NextLife]_vars

(* SpecShutdown is one process up to its exit on a signal; once entered,   *)
(* the handler runs on: nothing else does while it has a step to take.     *)

Handler == HandlerSaveIndex \/ HandlerSaveMeta \/ HandlerExit

NextShutdown ==
    \/ ThreadAdd(1)
    \/ ThreadRemove(1)
    \/ StepWrite(1)
    \/ Rest(1)
    \/ Signal
    \/ HandlerSaveIndex
    \/ HandlerSaveMeta
    \/ HandlerExit

SpecShutdown == Init /\ [][NextShutdown]_vars /\ WF_vars(Handler)

(* SpecDispatch sends requests through process_request: with and without *)
(* a requestId, with unknown actions, with fields missing, with handlers   *)
(* that raise.  Its calls take the narrower arguments.                     *)

NextDispatch == \E rid \in RequestIds : process_request(rid) /\ UNCHANGED <<lines, stdout, life>>

SpecDispatch == Init /\ [][NextDispatch]_vars

(* SpecMain is the request loop over the lines of stdin.                   *)

NextMain ==
    \/ \E kind \in LineKinds : ReadLine(kind)
    \/ AnswerLine

SpecMain == Init /\ [][NextMain]_vars

(* SpecBulk fills the store in bulk, so that its size reaches the save     *)
(* interval; saves may fail.                                               *)

NextBulk == AddBulk(SaveOutcomes) /\ Direct

SpecBulk == Init /\ [][NextBulk]_vars

-----------------------------------------------------------------------------
(* Properties *)

Before == last.pre

CallOk(op) == last.op = op /\ last.status = "ok"

Named == Range(last.args.vids)

\* C1: in every reachable state the index and the metadata mapping hold the
\* same ids, and stats reports total_vectors = metadata_count.
C1_IdSetsAgree ==
    /\ IndexIds(id_map) = Keys(metadata)
    /\ NTotal(id_map) = Len(metadata)
    /\ last.op = "stats" => last.result.total_vectors = last.result.metadata_count

\* C2: an add whose texts and metadata differ in length returns an error
\* with no ids and leaves next_id, the metadata mapping and the index as
\* they were.
C2_MismatchRejectedWhole ==
    (last.op = "add" /\ Len(last.args.texts) # Len(last.args.metas)) =>
        /\ last.status = "error"
        /\ last.result.ids = <<>>
        /\ Store = Before

\* C3: a successful add of m items on a store whose counter is n returns
\* n .. n+m-1 in order, one id per text, leaves next_id = n+m, and holds item
\* i's metadata and embedding under id n+i; the first id of a fresh store is 0.
C3_AddAssignsSequentialIds ==
    /\ last.op = "none" => next_id = 0
    /\ CallOk("add") =>
        LET ids == last.result.ids
            m   == Len(last.args.texts)
        IN
        /\ Len(ids) = m
        /\ \A i \in 1 .. m : ids[i] = Before.next_id + i - 1
        /\ next_id = Before.next_id + m
        /\ \A i \in 1 .. m :
            /\ ids[i] \in Keys(metadata)
            /\ DictValue(metadata, ids[i]) = last.args.metas[i]
            /\ Cardinality({p \in 1 .. Len(id_map) : id_map[p].id = ids[i]}) = 1
            /\ Reconstruct(id_map, ids[i]) = Encode(last.args.texts[i])

C3_Witness ==
    /\ CallOk("add")
    /\ Before.next_id >= 1
    /\ Len(last.result.ids) >= 1

\* C4: within one process no id is returned by add twice: the ids returned
\* so far are pairwise distinct and all below next_id, next_id never
\* decreases, and remove leaves it alone.
C4_NoIdReturnedTwice ==
    /\ \A i, j \in 1 .. Len(issued) : i # j => issued[i] # issued[j]
    /\ \A i \in 1 .. Len(issued) : issued[i] < next_id
    /\ next_id >= Before.next_id
    /\ last.op = "remove" => next_id = Before.next_id

\* an add that returned an id while an id returned earlier had been removed
C4_Witness ==
    /\ CallOk("add")
    /\ Len(last.result.ids) >= 1
    /\ \E i \in 1 .. Len(issued) :
        /\ issued[i] \notin Range(last.result.ids)
        /\ issued[i] \notin Keys(metadata) \cup IndexIds(id_map)

\* C5: after a successful remove the metadata mapping and the index hold the
\* ids they held before minus the named ones, every survivor with its
\* metadata and embedding, next_id is unchanged, and removing everything
\* leaves both empty.
C5_RemoveKeepsSurvivors ==
    CallOk("remove") =>
        /\ Keys(metadata) = Keys(Before.metadata) \ Named
        /\ IndexIds(id_map) = IndexIds(Before.id_map) \ Named
        /\ \A id \in Keys(metadata) : DictValue(metadata, id) = DictValue(Before.metadata, id)
        /\ \A id \in IndexIds(id_map) : Reconstruct(id_map, id) = Reconstruct(Before.id_map, id)
        /\ next_id = Before.next_id
        /\ (Keys(Before.metadata) \cup IndexIds(Before.id_map)) \subseteq Named
              => metadata = <<>> /\ id_map = EmptyIndex

InMemory == <<metadata, id_map, next_id>>

AbsentOnly(call) ==
    \A i \in 1 .. Len(call.args.vids) : call.args.vids[i] \notin Keys(call.pre.metadata)

RepeatsRemove ==
    /\ last.op = "remove" /\ last.status = "ok"
    /\ last'.op = "remove" /\ last'.args.vids = last.args.vids

\* C6: a remove (in which no collaborator was made to raise) that names only
\* absent ids returns success, and a remove repeated with the same ids returns
\* success again and changes nothing in memory.
C6_RemoveIdempotent ==
    [][ (last'.op = "remove" /\ ~last'.injected) =>
            /\ AbsentOnly(last') => last'.status = "ok"
            /\ RepeatsRemove => last'.status = "ok" /\ InMemory' = InMemory ]_vars

\* C7: when a reconstruct fails, remove returns an error and the metadata
\* mapping and the index are both as before the call or both rebuilt.
C7_FailedRemoveAtomic ==
    (last.op = "remove" /\ last.fault = "reconstruct") =>
        /\ last.status = "error"
        /\ \/ metadata = Before.metadata /\ id_map = Before.id_map
           \/ /\ metadata = DeleteNamed(Before.metadata, last.args.vids)
              /\ IndexIds(id_map) = Keys(metadata)
              /\ NTotal(id_map) = Len(metadata)

\* C8: when encoding fails, add returns an error result with no ids and
\* next_id, the metadata mapping and the index are unchanged.
C8_EncodeFailureLeavesStore ==
    (last.op = "add" /\ last.fault = "encode") =>
        /\ last.status = "error"
        /\ last.result.ids = <<>>
        /\ Store = Before

C8_Witness ==
    /\ last.op = "add" /\ last.fault = "encode"
    /\ Len(last.args.texts) >= 1
    /\ Len(last.args.metas) = Len(last.args.texts)
    /\ metadata # <<>>

\* C9: a search whose encoding did not fail returns 0 results on an empty
\* store or for k <= 0, and min(k, total_vectors) results otherwise.
C9_ResultCount ==
    (last.op = "search" /\ last.fault # "encode") =>
        Len(last.result.hits) =
            IF NTotal(id_map) = 0 \/ last.args.k <= 0 THEN 0
            ELSE Min(last.args.k, NTotal(id_map))

\* C10: for k > 0 on a non-empty store, a search whose encoding did not fail
\* returns the min(k, total_vectors) stored records nearest to the query, with
\* their metadata, by non-decreasing distance and, at equal distance, by
\* ascending id; no record left out is strictly nearer than one returned.
C10_ExactNearest ==
    (last.op = "search" /\ last.fault # "encode" /\ last.args.k > 0 /\ NTotal(id_map) > 0) =>
        LET hits == last.result.hits
            q    == Encode(last.args.query)
            Got  == {hits[i].id : i \in 1 .. Len(hits)}
        IN
        /\ Len(hits) = Min(last.args.k, NTotal(id_map))
        /\ \A i, j \in 1 .. Len(hits) : i < j =>
              \/ hits[i].distance < hits[j].distance
              \/ hits[i].distance = hits[j].distance /\ hits[i].id < hits[j].id
        /\ \A i \in 1 .. Len(hits) :
              /\ hits[i].id \in IndexIds(id_map) \cap Keys(metadata)
              /\ hits[i].distance = L2(Reconstruct(id_map, hits[i].id), q)
              /\ hits[i].metadata = DictValue(metadata, hits[i].id)
        /\ \A p \in 1 .. Len(id_map) : id_map[p].id \notin Got =>
              \A i \in 1 .. Len(hits) : L2(id_map[p].vec, q) >= hits[i].distance

\* C11: an add that inserts at least one entry saves before it returns if
\* and only if the metadata mapping's size after the insertion is a positive
\* multiple of 100.
C11_AddSavesAtInterval ==
    last.op = "add" /\ last.fault # "encode" /\ last.args.metas # <<>>
        => (last.saved <=> Len(metadata) > 0 /\ Len(metadata) % SaveInterval = 0)

\* what a save of the store in memory leaves in the two artifacts
Saved ==
    [index |-> Stored(id_map),
     meta  |-> Stored([metadata |-> metadata, next_id |-> next_id])]

\* C12: a remove that returns success has saved the rebuilt store before
\* returning, whether or not any named id was present; when that save
\* succeeded, a restart right after the remove loads a store holding none of
\* the named ids.
C12_RemoveSavesRebuilt ==
    CallOk("remove") =>
        /\ last.saved
        /\ last.write = "ok" =>
            /\ disk = Saved
            /\ Named \cap Keys(load_index(disk).metadata) = {}
            /\ Named \cap IndexIds(load_index(disk).id_map) = {}

C12_Witness ==
    /\ CallOk("remove")
    /\ last.write = "ok"
    /\ Named \cap Keys(Before.metadata) # {}
    /\ load_index(disk).metadata # <<>>

\* C13: a save whose write fails raises nothing and leaves the store in
\* memory as the call made it: the add or remove that triggered the save
\* returns its normal result.
C13_FailedSaveIsSilent ==
    last.saved /\ last.write # "ok" =>
        /\ last.status = "ok"
        /\ last.op = "remove" =>
            /\ metadata = DeleteNamed(Before.metadata, last.args.vids)
            /\ id_map = Rebuild(Before.id_map, KeyList(metadata))
            /\ next_id = Before.next_id
        /\ last.op = "add" =>
            /\ last.result.ids = AssignIds(Before.next_id, Len(last.args.metas))
            /\ metadata = InsertAll(Before.metadata, last.result.ids, last.args.metas)
            /\ id_map = AddWithIds(Before.id_map, EncodeAll(last.args.texts), last.result.ids)
            /\ next_id = Before.next_id + Len(last.args.metas)

C13_Witness ==
    /\ last.op = "remove"
    /\ last.saved
    /\ last.write = "meta_write_fails"
    /\ Named \cap Keys(Before.metadata) # {}
    /\ metadata # <<>>

\* C14: when a start finds an artifact missing, or fails to read either of
\* them, the store it leaves is the empty store: no metadata, no vectors,
\* next_id = 0.
C14_FailedLoadStartsEmpty ==
    /\ last.op = "start"
    /\ \/ disk.index.st = "absent"
       \/ disk.meta.st = "absent"
       \/ LoadFailure(disk) # "none"
    => Store = FreshStore

\* the artifacts are those of a successful save of the store `s`
SavedFrom(s) ==
    /\ disk.index = Stored(s.id_map)
    /\ disk.meta = Stored([metadata |-> s.metadata, next_id |-> s.next_id])

\* C15: a process started over the artifacts of a successful save of a
\* store has the same ids, the same vector and document per id, the same
\* statistics and next_id, and answers every search the same.
C15_SaveLoadRoundTrip ==
    last.op = "start" /\ SavedFrom(Before) =>
        /\ Keys(metadata) = Keys(Before.metadata)
        /\ IndexIds(id_map) = IndexIds(Before.id_map)
        /\ metadata = Before.metadata
        /\ id_map = Before.id_map
        /\ get_stats(metadata, id_map) = get_stats(Before.metadata, Before.id_map)
        /\ next_id = Before.next_id
        /\ \A query \in Queries, k \in KArgs :
               search(metadata, id_map, query, k, FALSE)
                   = search(Before.metadata, Before.id_map, query, k, FALSE)

C15_Witness ==
    /\ last.op = "start"
    /\ SavedFrom(Before)
    /\ metadata # <<>>
    /\ next_id > Len(metadata)

\* C16: whatever the request's action and fields, and whatever fails inside
\* the handler, process_request returns a response whose requestId is the
\* request's (null when it has none) and which carries exactly one of the
\* keys result and error.
C16_OneResponsePerRequest ==
    last.op # "none" =>
        /\ response.requestId = request.id
        /\ Cardinality(response.keys \cap {"result", "error"}) = 1

C16_Witness ==
    /\ last.fault = "escaped"
    /\ request.id = "r1"
    /\ response.keys = {"requestId", "error"}

\* C17: a request whose action is none of add, search, remove, stats (a
\* request without an action included) is answered with
\* result = {"error": "Unknown action: <name>"} and no top-level error, and
\* leaves the store and the artifacts as they were.
C17_UnknownActionRejected ==
    [][request'.action \notin KnownActions =>
          /\ response'.keys = {"requestId", "result"}
          /\ response'.nested_error
          /\ response'.result.error = "Unknown action: " \o request'.action
          /\ UNCHANGED <<metadata, id_map, next_id, disk>>]_vars

C17_Witness ==
    /\ request.action = NoAction
    /\ last.op = "unknown"
    /\ response.result.error = "Unknown action: None"
    /\ metadata # <<>>
    /\ disk.meta.st = "ok"

\* C18: when the handler of a known action raises an exception that leaves
\* it, the response carries the requestId and a top-level error and no
\* result; an error the handler reports itself is nested under result.
C18_EscapedErrorsTopLevel ==
    /\ last.fault = "escaped" =>
        /\ response.keys = {"requestId", "error"}
        /\ response.requestId = request.id
    /\ last.status = "error" /\ last.fault # "escaped" =>
        /\ response.keys = {"requestId", "result"}
        /\ response.nested_error

C18_Witness ==
    /\ last.op = "add"
    /\ last.fault = "escaped"
    /\ "result" \notin response.keys
    /\ metadata # <<>>

\* C19: an add request without texts and metadata fields, or with two empty
\* lists, is not an error: its result is {"vectorIds": []} and next_id, the
\* metadata and the index are as before.
C19_EmptyAddSucceeds ==
    /\ request.action = "add"
    /\ last.fault # "escaped"
    /\ ~last.injected
    /\ last.args.texts = <<>>
    /\ last.args.metas = <<>>
    => /\ response.keys = {"requestId", "result"}
       /\ ~response.nested_error
       /\ response.result.ids = <<>>
       /\ Store = Before

\* how many responses were printed for line n
Answers(n) == Cardinality({i \in 1 .. Len(stdout) : stdout[i] = n})

\* line n has been dealt with: the loop body has finished with it
Done(n) == n < Len(lines) \/ ~Pending

InOrder == \A i, j \in 1 .. Len(stdout) : i < j => stdout[i] < stdout[j]

\* C20 (as stated): an unparseable line gets no response and the loop goes
\* on; every parseable line gets exactly one response, printed before the
\* next line is read; responses come in the order of their requests.
C20_ParseableLinesAnswered ==
    /\ \A n \in 1 .. Len(lines) :
        /\ lines[n] = "garbage" => Answers(n) = 0
        /\ lines[n] # "garbage" /\ Done(n) => Answers(n) = 1
    /\ InOrder

\* C20 (amended): a line that does not parse, or parses to a JSON value that
\* is not an object, gets no response and the loop goes on; every line that
\* parses to a request object gets exactly one response, printed before the
\* next line is read; responses come in the order of their requests.
C20_ObjectLinesAnswered ==
    /\ \A n \in 1 .. Len(lines) :
        /\ lines[n] # "object" => Answers(n) = 0
        /\ lines[n] = "object" /\ Done(n) => Answers(n) = 1
    /\ InOrder

C20_Witness ==
    /\ lines = <<"garbage", "object", "object">>
    /\ stdout = <<2, 3>>
    /\ metadata # <<>>

\* C24: search and stats are read-only: every one of them, a search whose
\* query encoding fails included (it returns an empty sequence, raising
\* nothing), leaves next_id, the metadata, the index and the artifacts as
\* they were; stats never fails.
C24_ReadsChangeNothing ==
    [][last'.op \in {"search", "stats"} =>
          /\ UNCHANGED <<metadata, id_map, next_id, disk>>
          /\ last'.status = "ok"
          /\ last'.fault = "encode" => last'.result.hits = <<>>
          /\ last'.op = "stats" => last'.result = get_stats(metadata, id_map)]_vars

C24_Witness ==
    /\ last.op = "search"
    /\ last.fault = "encode"
    /\ last.result.hits = <<>>
    /\ metadata # <<>>
    /\ disk.index.st = "ok"

-----------------------------------------------------------------------------
(* Calls made from several threads *)

\* both threads have returned, thread 1 from op1 and thread 2 from op2
BothDone(op1, op2) ==
    /\ threads[1].pc = "done" /\ threads[1].op = op1
    /\ threads[2].pc = "done" /\ threads[2].op = op2

\* the two calls were under way at the same time
Overlapped == threads[1].overlap /\ threads[2].overlap

\* thread t added a batch with one document per text
AddedBatch(t) ==
    /\ threads[t].op = "add"
    /\ Len(threads[t].args.texts) = Len(threads[t].args.metas)
    /\ threads[t].args.texts # <<>>

\* the store thread 1, the first to start, found
StoreAtStart == threads[1].pre

\* C22: when two threads add a batch each at the same time, both calls
\* return their ids without error, no id is returned twice, and the store
\* has grown by exactly the items added: as many vectors as metadata
\* entries.
C22_ConcurrentAddsAllLand ==
    BothDone("add", "add") /\ Overlapped /\ AddedBatch(1) /\ AddedBatch(2) =>
        /\ threads[1].status = "ok" /\ threads[2].status = "ok"
        /\ Range(threads[1].ids) \cap Range(threads[2].ids) = {}
        /\ NTotal(id_map) = NTotal(StoreAtStart.id_map)
                              + Len(threads[1].args.texts) + Len(threads[2].args.texts)
        /\ Len(metadata) = Len(StoreAtStart.metadata)
                              + Len(threads[1].args.texts) + Len(threads[2].args.texts)

\* threads s and r have returned from overlapping calls of the two methods
DoneTogether(s, ops, r, opr) ==
    /\ s # r
    /\ threads[s].pc = "done" /\ threads[s].op = ops
    /\ threads[r].pc = "done" /\ threads[r].op = opr
    /\ Overlapped

\* every metadata entry has its one row in the index, and the reverse
Consistent(s) ==
    /\ Keys(s.metadata) = IndexIds(s.id_map)
    /\ Len(s.metadata) = Len(s.id_map)

\* the store `s` after a remove of `vids` run on its own
AfterRemove(s, vids) ==
    [metadata |-> DeleteNamed(s.metadata, vids),
     id_map   |-> Rebuild(s.id_map, KeyList(DeleteNamed(s.metadata, vids))),
     next_id  |-> s.next_id]

\* what a search with the arguments `a` run on its own returns on the store `s`
SearchOn(s, a) == search(s.metadata, s.id_map, a.query, a.k, FALSE)

\* C23: a search that overlaps a remove returns what it would return on
\* the store before the remove or on the store after it, never fewer
\* results or an empty list because of the overlap.
C23_SearchDuringRemoveIsSerial ==
    \A s, r \in Tids :
        DoneTogether(s, "search", r, "remove") /\ Consistent(threads[r].pre) =>
            threads[s].hits \in {SearchOn(threads[r].pre, threads[s].args),
                                 SearchOn(AfterRemove(threads[r].pre, threads[r].args.vids),
                                          threads[s].args)}

\* the store `s` after an add of the batch `a` run on its own
AfterAdd(s, a) ==
    [metadata |-> InsertAll(s.metadata, AssignIds(s.next_id, Len(a.metas)), a.metas),
     id_map   |-> AddWithIds(s.id_map, EncodeAll(a.texts), AssignIds(s.next_id, Len(a.metas))),
     next_id  |-> s.next_id + Len(a.metas)]

\* C28: after an add and a remove that overlapped, the store is the one
\* that running the two calls one after the other, in one order or the
\* other, would have left.
C28_AddDuringRemoveIsSerial ==
    \A a, r \in Tids :
        /\ DoneTogether(a, "add", r, "remove")
        /\ AddedBatch(a)
        /\ threads[a].status = "ok" /\ threads[r].status = "ok"
        /\ Consistent(StoreAtStart)
        => Store \in {AfterRemove(AfterAdd(StoreAtStart, threads[a].args), threads[r].args.vids),
                      AfterAdd(AfterRemove(StoreAtStart, threads[r].args.vids), threads[a].args)}

\* C29: a search that overlaps an add returns without error, every record
\* it returns has its metadata and its vector in the store, and the result
\* is what the search would return on the store before the add or on the
\* store after it.
C29_SearchDuringAddIsSerial ==
    \A s, a \in Tids :
        /\ DoneTogether(s, "search", a, "add")
        /\ AddedBatch(a)
        /\ threads[a].status = "ok"
        /\ Consistent(threads[a].pre)
        => /\ threads[s].status = "ok"
           /\ \A i \in 1 .. Len(threads[s].hits) :
                  threads[s].hits[i].id \in Keys(metadata) \cap IndexIds(id_map)
           /\ threads[s].hits \in {SearchOn(threads[a].pre, threads[s].args),
                                   SearchOn(AfterAdd(threads[a].pre, threads[a].args),
                                            threads[s].args)}

-----------------------------------------------------------------------------
(* Signals, crashes and restarts *)

\* thread t has written the first artifact of a save and not yet the second
SaveInFlight(t) == threads[t].pc = "save_meta"

\* C21: once a termination signal is delivered the process exits; when it
\* has exited, the save of shutdown has written the store in memory, and no
\* save that an add or a remove had begun is left half done.
C21_ShutdownSavesBeforeExit ==
    /\ proc = "shutdown" ~> proc = "exited"
    /\ [](proc = "exited" /\ last.write = "ok" => SavedFrom(Store))
    /\ [](proc = "exited" => \A t \in Tids : ~SaveInFlight(t))

\* the process was killed while thread t was in the save of a call, no
\* signal having come
KilledInSave(t) ==
    /\ proc = "crashed"
    /\ last.op # "shutdown"
    /\ threads[t].pc \in {"save_index", "save_meta", "return"}
    /\ threads[t].op \in {"add", "remove"}

\* C26: when a process is killed during the save of a call (before, between
\* or after the two writes), the next process starts with a store whose
\* index ids are its metadata ids, and which is the store saved before the
\* call, the store being saved, or the empty store.
C26_CrashDuringSaveLoadsOneState ==
    [][ \A t \in Tids :
          /\ KilledInSave(t)
          /\ Consistent(Store)
          /\ Consistent(load_index(threads[t].old))
          /\ proc' = "running"
          => /\ Keys(metadata') = IndexIds(id_map')
             /\ Store' \in {load_index(threads[t].old), Store, FreshStore} ]_vars

\* thread t has returned the ids of an add
AddReturned(t) ==
    threads[t].pc = "done" /\ threads[t].op = "add" /\ threads[t].status = "ok"

\* C27: an add never returns an id that an add of an earlier process over
\* the same cache directory returned, nor an id the index it loaded holds.
C27_IdsUniqueAcrossRestarts ==
    \A t \in Tids :
        AddReturned(t) =>
            /\ Range(threads[t].ids) \cap retired = {}
            /\ Range(threads[t].ids) \cap IndexIds(threads[t].pre.id_map) = {}

\* when the signal came, thread t was part-way through the updates of an
\* add or a remove, or in the save of one
PartWay(t) ==
    /\ threads[t].op \in {"add", "remove"}
    /\ threads[t].pc \in {"add_load", "add_store", "add_meta", "add_read", "add_index",
                          "add_inside", "rm_keys", "rm_build", "rm_swap", "rm_fill",
                          "save_index", "save_meta"}

\* the artifacts describe one store, with every id in both and below next_id
SoundArtifacts ==
    /\ disk.index.st = "ok" /\ disk.meta.st = "ok"
    /\ IndexIds(disk.index.val) = Keys(disk.meta.val.metadata)
    /\ \A i \in IndexIds(disk.index.val) : i < disk.meta.val.next_id

\* C30: when a termination signal interrupts an add or a remove part-way
\* through its updates or its save, the artifacts the process leaves at its
\* exit hold the same ids in the index and in the metadata, all of them
\* below next_id.
C30_SignalMidCallLeavesSoundArtifacts ==
    \A t \in Tids :
        /\ proc = "exited"
        /\ last.write = "ok"
        /\ PartWay(t)
        /\ Consistent(threads[t].pre)
        => SoundArtifacts

=============================================================================
